---------------------------- MODULE Spec2Model ----------------------------
(***************************************************************************)
(* The Fundraiser ink! contract (src/fundraiser/lib.rs) as a state machine. *)
(*                                                                         *)
(* One action per contract message.  A message that panics is rolled back  *)
(* by the contracts runtime, value attached to the call included, so a     *)
(* failed call leaves the storage and the held balance as they were; only  *)
(* the observation record `last` tells that the call was made.             *)
(*                                                                         *)
(* FundingId (u32) and Balance (u128) keep their checked arithmetic, with  *)
(* the widths scaled down to MaxId and MaxBalance.                         *)
(***************************************************************************)
EXTENDS Integers, Sequences, FiniteSets, TLC

\* FundingId::MAX (u32::MAX in the source), scaled down.
MaxId == 2
\* Balance::MAX (u128::MAX in the source), scaled down.
MaxBalance == 3

FundingId == 0..MaxId
Balance == 0..MaxBalance
\* The accounts that call the contract.
AccountId == {"alice", "bob"}
\* The targets create_a_funding is called with.
ExpectedValues == {0, 2}

\* Option::None of a checked_add.
None == -1
\* The fund_id recorded for a create_a_funding call that returned nothing.
NoId == -1
\* The caller recorded for a call whose outcome does not read env().caller().
NoCaller == "-"

VARIABLES
    next_id,          \* transaction_list.next_id
    tx_ids,           \* transaction_list.transactions, the Vec of ids
    transactions,     \* Mapping<FundingId, Transaction>: a function on the stored keys
    current_funding,  \* Mapping<FundingId, Balance>: a function on the stored keys
    balance,          \* self.env().balance(), the value held by the contract
    last,             \* the most recent call: message, arguments, outcome
    issued,           \* history: the ids create_a_funding has returned, in order
    withdrawn         \* history: the ids of the successful withdraw calls

store == <<next_id, tx_ids, transactions, current_funding, balance>>
vars == <<next_id, tx_ids, transactions, current_funding, balance, last, issued, withdrawn>>

\* struct Transaction { callee, expected_value }
Transaction == [callee : AccountId, expected_value : ExpectedValues]

-----------------------------------------------------------------------------
\* ink_storage::Mapping, as used by the contract.
contains(m, k) == k \in DOMAIN m
\* A store to one storage cell: the value under k replaces the whole map.
insert_alone(m, k, v) == [x \in {k} |-> v]

insert(m, k, v) == [x \in (DOMAIN m) \cup {k} |-> IF x = k THEN v ELSE m[x]]
remove(m, k) == [x \in (DOMAIN m) \ {k} |-> m[x]]

\* wrapping_add in place of checked_add: the sum modulo 2^w.
wrapping_add(a, b, max) == (a + b) % (max + 1)

\* saturating_add in place of checked_add: the sum, or the maximum.
saturating_add(a, b, max) == IF a + b > max THEN max ELSE a + b

\* u32/u128 checked_add: None on overflow of the type's maximum.
checked_add(a, b, max) == IF a + b > max THEN None ELSE a + b

\* The record of a call.  value is the expected_value of create_a_funding,
\* the transferred value of fund, the amount paid out by withdraw; xfer is
\* what env().transfer reported, TRUE when it was not called.
Call(op, fund_id, caller, value, ok, xfer) ==
    [op |-> op, fund_id |-> fund_id, caller |-> caller, value |-> value,
     ok |-> ok, xfer |-> xfer]

\* A panic: the runtime reverts the call; only the observation changes.
Abort(op, fund_id, caller, value, xfer) ==
    /\ last' = Call(op, fund_id, caller, value, FALSE, xfer)
    /\ UNCHANGED <<next_id, tx_ids, transactions, current_funding, balance, issued, withdrawn>>

-----------------------------------------------------------------------------
\* Fundraiser::new: empty mappings, next_id 0; the contract holds what the
\* instantiation endowed it with.
Init ==
    /\ next_id = 0
    /\ tx_ids = <<>>
    /\ transactions = <<>>
    /\ current_funding = <<>>
    /\ balance \in {0, 1}
    /\ last = Call("new", NoId, NoCaller, 0, TRUE, TRUE)
    /\ issued = <<>>
    /\ withdrawn = {}

\* fn ensure_transaction_exists: TRUE when it does not panic.
ensure_transaction_exists(fund_id) == contains(transactions, fund_id)

\* ensure_transaction_owner without the assert_eq on the caller.
ensure_transaction_owner_any(fund_id, caller_id) ==
    contains(transactions, fund_id)

\* fn ensure_transaction_owner: TRUE when it does not panic.
ensure_transaction_owner(fund_id, caller_id) ==
    /\ contains(transactions, fund_id)
    /\ transactions[fund_id].callee = caller_id

\* ensure_funding_is_not_exceed without the assert on the funding.
ensure_funding_is_not_exceed_any(fund_id) ==
    contains(transactions, fund_id)

\* fn ensure_funding_is_not_exceed: TRUE when it does not panic.
ensure_funding_is_not_exceed(fund_id) ==
    /\ contains(transactions, fund_id)
    /\ contains(current_funding, fund_id) =>
           current_funding[fund_id] < transactions[fund_id].expected_value

\* ensure_funding_is_full with the comparison turned round.
ensure_funding_is_full_le(fund_id) ==
    /\ contains(transactions, fund_id)
    /\ contains(current_funding, fund_id)
    /\ current_funding[fund_id] <= transactions[fund_id].expected_value

\* fn ensure_funding_is_full: TRUE when it does not panic.
ensure_funding_is_full(fund_id) ==
    /\ contains(transactions, fund_id)
    /\ contains(current_funding, fund_id)
    /\ current_funding[fund_id] >= transactions[fund_id].expected_value

\* An allocator that defragments: the id is the number of stored campaigns.
allocate_compact == Cardinality(DOMAIN transactions)

\* let fund_id = self.transaction_list.next_id;
allocate_id == next_id

\* A Transaction left with the default expected_value.
new_transaction_default(caller, expected_value) ==
    [callee |-> caller, expected_value |-> 0]

\* let transaction = Transaction { callee: self.env().caller(), expected_value };
new_transaction(caller, expected_value) ==
    [callee |-> caller, expected_value |-> expected_value]

\* fn create_a_funding(&mut self, expected_value) -> FundingId
create_a_funding(caller, expected_value) ==
    LET fund_id == allocate_id
        n == checked_add(fund_id, 1, MaxId)
    IN  IF n = None
        THEN Abort("create_a_funding", NoId, caller, expected_value, TRUE)
        ELSE /\ next_id' = n
             /\ transactions' = insert(transactions, fund_id,
                    new_transaction(caller, expected_value))
             /\ tx_ids' = Append(tx_ids, fund_id)
             /\ last' = Call("create_a_funding", fund_id, caller, expected_value, TRUE, TRUE)
             /\ issued' = Append(issued, fund_id)
             /\ UNCHANGED <<current_funding, balance, withdrawn>>

\* fund storing the value over the funding instead of adding it.
new_funding_overwrite(fund_id, value) == value

\* fund clamping the stored amount to the campaign's expected_value.
new_funding_clamped(fund_id, value) ==
    LET sum == IF contains(current_funding, fund_id)
               THEN checked_add(current_funding[fund_id], value, MaxBalance)
               ELSE value
        cap == transactions[fund_id].expected_value
    IN  IF sum # None /\ sum > cap THEN cap ELSE sum

\* The amount fund stores: the value, added to the funding when there is
\* one; None when that addition overflows ("Funding exhausted.").
new_funding(fund_id, value) ==
    IF contains(current_funding, fund_id)
    THEN checked_add(current_funding[fund_id], value, MaxBalance)
    ELSE value

\* fn fund(&mut self, fund_id), payable: the runtime has moved `value` into
\* the contract's balance before the body runs, which the held balance must
\* be able to take.  The caller is read for the debug print only.
fund(fund_id, value) ==
    /\ balance + value <= MaxBalance
    /\ IF ~ensure_transaction_exists(fund_id)
       THEN Abort("fund", fund_id, NoCaller, value, TRUE)
       ELSE IF ~ensure_funding_is_not_exceed(fund_id)
       THEN Abort("fund", fund_id, NoCaller, value, TRUE)
       ELSE LET f == new_funding(fund_id, value)
            IN  IF f = None
                THEN Abort("fund", fund_id, NoCaller, value, TRUE)
                ELSE /\ current_funding' = insert(remove(current_funding, fund_id), fund_id, f)
                     /\ balance' = balance + value
                     /\ last' = Call("fund", fund_id, NoCaller, value, TRUE, TRUE)
                     /\ UNCHANGED <<next_id, tx_ids, transactions, issued, withdrawn>>

\* withdraw paying out the campaign's target instead of what was funded.
withdraw_target(fund_id) == transactions[fund_id].expected_value

\* withdraw paying out all the contract holds instead of the funding.
withdraw_all(fund_id) == balance

\* let funding = self.current_funding.get(fund_id).unwrap();
withdraw_amount(fund_id) == current_funding[fund_id]

\* The result of env().transfer dropped instead of checked.
transfer_unchecked(transfer_ok) == FALSE

\* if self.env().transfer(..).is_err() { panic!(..) }
transfer_aborts(transfer_ok) == ~transfer_ok

\* withdraw resetting the whole transactions map.
retire_all(fund_id) == <<>>

\* withdraw without the removal of the campaign record.
retire_nothing(fund_id) == transactions

\* self.transactions.remove(&fund_id);
retire(fund_id) == remove(transactions, fund_id)

\* fn withdraw(&mut self, fund_id); transfer_ok is what env().transfer
\* reports when it is reached.
withdraw(caller, fund_id, transfer_ok) ==
    IF ~ensure_transaction_exists(fund_id)
    THEN Abort("withdraw", fund_id, caller, 0, TRUE)
    ELSE IF ~ensure_transaction_owner(fund_id, caller)
    THEN Abort("withdraw", fund_id, caller, 0, TRUE)
    ELSE IF ~ensure_funding_is_full(fund_id)
    THEN Abort("withdraw", fund_id, caller, 0, TRUE)
    ELSE LET funding == withdraw_amount(fund_id)
         IN  IF ~(funding <= balance)
             THEN Abort("withdraw", fund_id, caller, 0, TRUE)
             ELSE IF transfer_aborts(transfer_ok)
             THEN Abort("withdraw", fund_id, caller, 0, FALSE)
             ELSE /\ balance' = IF transfer_ok THEN balance - funding ELSE balance
                  /\ transactions' = retire(fund_id)
                  /\ last' = Call("withdraw", fund_id, caller,
                                  IF transfer_ok THEN funding ELSE 0, TRUE, transfer_ok)
                  /\ withdrawn' = withdrawn \cup {fund_id}
                  /\ UNCHANGED <<next_id, tx_ids, current_funding, issued>>

\* The held balance is the runtime's: value sent to the contract's account
\* or charged to it changes env().balance() between calls.
env_balance(b) ==
    /\ b # balance
    /\ balance' = b
    /\ last' = Call("env", NoId, NoCaller, 0, TRUE, TRUE)
    /\ UNCHANGED <<next_id, tx_ids, transactions, current_funding, issued, withdrawn>>

Next ==
    \/ \E c \in AccountId, e \in ExpectedValues : create_a_funding(c, e)
    \/ \E i \in FundingId, v \in Balance : fund(i, v)
    \/ \E c \in AccountId, i \in FundingId, t \in BOOLEAN : withdraw(c, i, t)

\* The contract alone: the held balance changes by fund and withdraw only.
Spec == Init /\ [][Next]_vars

NextEnv ==
    \/ Next
    \/ \E b \in Balance : env_balance(b)

\* The contract in a runtime that also changes the held balance.
SpecEnv == Init /\ [][NextEnv]_vars

-----------------------------------------------------------------------------
\* What the properties read.

\* get_funding_status with an absent entry counted as zero.
accumulated(fund_id) ==
    IF contains(current_funding, fund_id) THEN current_funding[fund_id] ELSE 0

\* The same, read in the state the step leads to.
accumulated_after(fund_id) ==
    IF contains(current_funding', fund_id) THEN current_funding'[fund_id] ELSE 0

\* The campaign has a record in the transactions map.
live(fund_id) == contains(transactions, fund_id)

RECURSIVE SumAccumulated(_)
SumAccumulated(ids) ==
    IF ids = {} THEN 0
    ELSE LET i == CHOOSE x \in ids : TRUE
         IN  accumulated(i) + SumAccumulated(ids \ {i})

\* The step is a call of message op (every action records its call in last').
Called(op) == last'.op = op

\* The step's call panicked and nothing the contract stores or holds changed.
FailedUnchanged == ~last'.ok /\ UNCHANGED store

-----------------------------------------------------------------------------
\* C1. Conservation: with the held balance changed by fund and withdraw
\* only, the accumulated amounts of the live campaigns sum to at most the
\* held balance, in every reachable state.
C1_Conservation == SumAccumulated(DOMAIN transactions) <= balance

\* A payout has just been made while the other campaign still holds funds.
C1_Witness ==
    /\ last.op = "withdraw" /\ last.ok /\ last.value > 0
    /\ \E i \in DOMAIN transactions : accumulated(i) > 0

\* C2. No premature withdrawal: a withdraw of a campaign whose accumulated
\* amount (absent counted as zero) is below its target fails, whoever calls,
\* and changes neither the storage nor the held balance.
C2_NoPrematureWithdraw ==
    [][(/\ Called("withdraw")
        /\ live(last'.fund_id)
        /\ accumulated(last'.fund_id) < transactions[last'.fund_id].expected_value)
       => FailedUnchanged]_vars

\* The beneficiary's withdraw of a partly funded campaign has just failed.
C2_Witness ==
    /\ last.op = "withdraw" /\ ~last.ok
    /\ live(last.fund_id)
    /\ last.caller = transactions[last.fund_id].callee
    /\ contains(current_funding, last.fund_id)
    /\ current_funding[last.fund_id] > 0
    /\ current_funding[last.fund_id] < transactions[last.fund_id].expected_value

\* C3. Authorization: a withdraw of a live campaign by a caller other than
\* its recorded callee fails and changes nothing, fully funded or not; the
\* held balance goes down only by a successful withdraw whose caller, the
\* account paid, is the campaign's callee.
C3_Authorization ==
    [][/\ (/\ Called("withdraw")
           /\ live(last'.fund_id)
           /\ last'.caller # transactions[last'.fund_id].callee)
          => FailedUnchanged
       /\ balance' < balance
          => /\ Called("withdraw") /\ last'.ok
             /\ live(last'.fund_id)
             /\ last'.caller = transactions[last'.fund_id].callee]_vars

\* A stranger's withdraw of a fully funded campaign has just failed; the
\* campaign is still there for its beneficiary, whom the balance can pay.
C3_Witness ==
    /\ last.op = "withdraw" /\ ~last.ok
    /\ live(last.fund_id)
    /\ last.caller # transactions[last.fund_id].callee
    /\ contains(current_funding, last.fund_id)
    /\ current_funding[last.fund_id] >= transactions[last.fund_id].expected_value
    /\ current_funding[last.fund_id] > 0
    /\ current_funding[last.fund_id] <= balance

\* C4. Full retirement: once withdraw(id) has succeeded, get_funding(id) and
\* get_funding_status(id) are both absent in every later state, and a ledger
\* entry exists only for an id that has a campaign record.
C4_FullRetirement ==
    \A i \in FundingId :
        /\ i \in withdrawn => ~live(i) /\ ~contains(current_funding, i)
        /\ contains(current_funding, i) => live(i)

\* C5. Unknown or retired ids are dead: fund and withdraw of an id without a
\* campaign record fail and change nothing; a withdrawn id never has a
\* record again, and no id is withdrawn twice.
C5_DeadIds ==
    [][/\ ((Called("fund") \/ Called("withdraw")) /\ ~live(last'.fund_id))
          => FailedUnchanged
       /\ (Called("withdraw") /\ last'.ok) => last'.fund_id \notin withdrawn
       /\ \A i \in withdrawn : ~contains(transactions', i)]_vars

\* The beneficiary's second withdraw of a retired id has just failed, after
\* a later campaign was registered.
C5_Witness ==
    /\ last.op = "withdraw" /\ ~last.ok
    /\ last.fund_id \in withdrawn
    /\ ~live(last.fund_id)
    /\ contains(current_funding, last.fund_id)
    /\ current_funding[last.fund_id] <= balance
    /\ \E i \in DOMAIN transactions : i > last.fund_id

\* C6. Monotonic ids: the k-th successful create_a_funding returns k-1, the
\* next_id before the call, so the ids returned increase by one from 0 and
\* none is returned twice, withdrawals in between or not; no step of any
\* message lowers next_id.
C6_MonotonicIds ==
    [][/\ (Called("create_a_funding") /\ last'.ok)
          => /\ last'.fund_id = Len(issued)
             /\ last'.fund_id = next_id
             /\ next_id' = next_id + 1
             /\ \A k \in 1..Len(issued) : issued[k] < last'.fund_id
       /\ next_id' >= next_id]_vars

\* A campaign has just been registered after an earlier one was withdrawn.
C6_Witness ==
    /\ last.op = "create_a_funding" /\ last.ok
    /\ withdrawn # {}
    /\ Len(issued) >= 2
    /\ last.fund_id = issued[Len(issued)]

\* C7. Overflow safety: a fund of a live campaign below its target whose
\* attached value would take the accumulated amount past the maximum Balance
\* fails and changes nothing; what a successful fund stores is the true sum,
\* never a wrapped or saturated one.
C7_OverflowSafety ==
    [][/\ (/\ Called("fund")
           /\ live(last'.fund_id)
           /\ accumulated(last'.fund_id) < transactions[last'.fund_id].expected_value
           /\ accumulated(last'.fund_id) + last'.value > MaxBalance)
          => FailedUnchanged
       /\ (Called("fund") /\ last'.ok)
          => /\ contains(current_funding', last'.fund_id)
             /\ current_funding'[last'.fund_id]
                    = accumulated(last'.fund_id) + last'.value]_vars

\* A fund that would overflow the entry of a campaign below its target has
\* just failed.
C7_Witness ==
    /\ last.op = "fund" /\ ~last.ok
    /\ live(last.fund_id)
    /\ contains(current_funding, last.fund_id)
    /\ current_funding[last.fund_id] < transactions[last.fund_id].expected_value
    /\ current_funding[last.fund_id] + last.value > MaxBalance

\* C8. Transfer-then-mutate: a withdraw that passes the existence, callee and
\* funding checks fails and changes nothing when the contract holds less
\* than the funding or when the transfer reports failure; a campaign record
\* is removed only by a withdraw whose transfer succeeded and took exactly
\* the funding out of the held balance.
C8_TransferThenMutate ==
    [][/\ (/\ Called("withdraw")
           /\ live(last'.fund_id)
           /\ last'.caller = transactions[last'.fund_id].callee
           /\ contains(current_funding, last'.fund_id)
           /\ current_funding[last'.fund_id]
                  >= transactions[last'.fund_id].expected_value
           /\ (balance < current_funding[last'.fund_id] \/ ~last'.xfer))
          => FailedUnchanged
       /\ \A i \in DOMAIN transactions :
              ~contains(transactions', i)
              => /\ Called("withdraw") /\ last'.fund_id = i
                 /\ last'.ok /\ last'.xfer
                 /\ balance' = balance - accumulated(i)]_vars

\* The beneficiary's withdraw of a funded campaign the balance covers has
\* just failed in the transfer; the record and the entry are still there.
C8_Witness ==
    /\ last.op = "withdraw" /\ ~last.ok /\ ~last.xfer
    /\ live(last.fund_id)
    /\ last.caller = transactions[last.fund_id].callee
    /\ contains(current_funding, last.fund_id)
    /\ current_funding[last.fund_id] > 0
    /\ current_funding[last.fund_id] <= balance

\* The other case of C8: the withdraw has just failed on a held balance
\* smaller than the funding.
C8_WitnessInsufficient ==
    /\ last.op = "withdraw" /\ ~last.ok /\ last.xfer
    /\ live(last.fund_id)
    /\ last.caller = transactions[last.fund_id].callee
    /\ contains(current_funding, last.fund_id)
    /\ current_funding[last.fund_id] >= transactions[last.fund_id].expected_value
    /\ current_funding[last.fund_id] > balance

\* C9. Allocator exhaustion: with next_id at the maximum of the id type,
\* create_a_funding fails and changes nothing, next_id stays there for good,
\* and no create_a_funding ever returns an id returned before.
C9_AllocatorExhaustion ==
    [][/\ (Called("create_a_funding") /\ next_id = MaxId) => FailedUnchanged
       /\ next_id = MaxId => next_id' = MaxId
       /\ (Called("create_a_funding") /\ last'.ok)
          => \A k \in 1..Len(issued) : issued[k] # last'.fund_id]_vars

\* A create_a_funding has just failed on the exhausted allocator.
C9_Witness ==
    /\ last.op = "create_a_funding" /\ ~last.ok
    /\ next_id = MaxId
    /\ Len(issued) = MaxId

\* C10. Permissive over-funding: a fund of a live campaign whose accumulated
\* amount (absent counted as zero) is below its target succeeds for every
\* attached value that does not overflow, and stores exactly accumulated +
\* value, above the target or not.
C10_PermissiveOverFunding ==
    [][(/\ Called("fund")
        /\ live(last'.fund_id)
        /\ accumulated(last'.fund_id) < transactions[last'.fund_id].expected_value
        /\ accumulated(last'.fund_id) + last'.value <= MaxBalance)
       => /\ last'.ok
          /\ contains(current_funding', last'.fund_id)
          /\ current_funding'[last'.fund_id]
                 = accumulated(last'.fund_id) + last'.value]_vars

\* A fund has just taken a partly funded campaign past its target.
C10_Witness ==
    /\ last.op = "fund" /\ last.ok
    /\ live(last.fund_id)
    /\ current_funding[last.fund_id] > transactions[last.fund_id].expected_value
    /\ current_funding[last.fund_id] - last.value > 0
    /\ current_funding[last.fund_id] - last.value
           < transactions[last.fund_id].expected_value

\* C11. Already-funded rejection: a fund of a live campaign whose accumulated
\* amount (absent counted as zero) is not below its target fails and changes
\* nothing, a campaign of target 0 without an entry included.
C11_AlreadyFundedRejection ==
    [][(/\ Called("fund")
        /\ live(last'.fund_id)
        /\ accumulated(last'.fund_id) >= transactions[last'.fund_id].expected_value)
       => FailedUnchanged]_vars

C13_LedgerWithinBalance == SumAccumulated(DOMAIN current_funding) <= balance

C15_WithdrawWhenFunded ==
    [][(/\ Called("withdraw")
        /\ live(last'.fund_id)
        /\ last'.caller = transactions[last'.fund_id].callee
        /\ accumulated(last'.fund_id) >= transactions[last'.fund_id].expected_value
        /\ balance >= accumulated(last'.fund_id)
        /\ last'.xfer)
       => last'.ok /\ ~contains(transactions', last'.fund_id)]_vars

\* C16. Contributions strictly increase the total: every successful fund,
\* of value 0 too, leaves the accumulated amount of its campaign greater
\* than before, and no step lowers the accumulated amount of a campaign.
C16_StrictlyIncreasing ==
    [][/\ (Called("fund") /\ last'.ok)
          => accumulated_after(last'.fund_id) > accumulated(last'.fund_id)
       /\ \A i \in FundingId : accumulated_after(i) >= accumulated(i)]_vars

\* C16, amended. A successful fund leaves the accumulated amount of its
\* campaign at least what it was, and greater when the attached value is not
\* 0; no step lowers the accumulated amount of a campaign.
C16_NonDecreasing ==
    [][/\ (Called("fund") /\ last'.ok)
          => /\ accumulated_after(last'.fund_id) >= accumulated(last'.fund_id)
             /\ last'.value > 0
                => accumulated_after(last'.fund_id) > accumulated(last'.fund_id)
       /\ \A i \in FundingId : accumulated_after(i) >= accumulated(i)]_vars

\* A fund of value 0 has just succeeded on a campaign with funds in it.
C16_Witness ==
    /\ last.op = "fund" /\ last.ok /\ last.value = 0
    /\ live(last.fund_id)
    /\ current_funding[last.fund_id] > 0

\* C17. Campaign terms are immutable: no step of any message changes the
\* callee or the expected_value of a stored campaign, and a record leaves
\* the map only by a successful withdraw of its own id.
C17_ImmutableTerms ==
    [][\A i \in DOMAIN transactions :
           IF contains(transactions', i)
           THEN transactions'[i] = transactions[i]
           ELSE Called("withdraw") /\ last'.ok /\ last'.fund_id = i]_vars

\* The other campaign has just been withdrawn; this one, funded, keeps its
\* record.
C17_Witness ==
    /\ last.op = "withdraw" /\ last.ok
    /\ \E i \in DOMAIN transactions :
           /\ i # last.fund_id
           /\ contains(current_funding, i)
           /\ transactions[i].callee # last.caller

\* C18. Effect of registration: a successful create_a_funding(e) by c
\* returns the next_id before the call, stores [callee c, expected_value e]
\* under it, adds 1 to next_id, creates no ledger entry, and leaves every
\* other record, every ledger entry and the held balance as they were.
C18_RegistrationEffect ==
    [][(Called("create_a_funding") /\ last'.ok)
       => /\ last'.fund_id = next_id
          /\ next_id' = next_id + 1
          /\ ~contains(transactions, last'.fund_id)
          /\ contains(transactions', last'.fund_id)
          /\ transactions'[last'.fund_id]
                 = [callee |-> last'.caller, expected_value |-> last'.value]
          /\ \A i \in FundingId \ {last'.fund_id} :
                 /\ contains(transactions', i) = contains(transactions, i)
                 /\ contains(transactions, i) => transactions'[i] = transactions[i]
          /\ ~contains(current_funding', last'.fund_id)
          /\ current_funding' = current_funding
          /\ balance' = balance]_vars

\* A campaign of target 2 has just been registered beside a funded one.
C18_Witness ==
    /\ last.op = "create_a_funding" /\ last.ok /\ last.value = 2
    /\ live(last.fund_id)
    /\ ~contains(current_funding, last.fund_id)
    /\ \E i \in DOMAIN current_funding : i # last.fund_id /\ current_funding[i] > 0

\* C19. Allocator bound: every id returned so far and every key of the
\* transactions map, of the ledger and of the id list is below next_id, in
\* every reachable state.
C19_AllocatorBound ==
    /\ \A k \in 1..Len(issued) : issued[k] < next_id
    /\ \A k \in 1..Len(tx_ids) : tx_ids[k] < next_id
    /\ \A i \in DOMAIN transactions : i < next_id
    /\ \A i \in DOMAIN current_funding : i < next_id

\* The allocator is exhausted with a retired id, a live one and entries.
C19_Witness ==
    /\ next_id = MaxId
    /\ Len(tx_ids) = MaxId
    /\ withdrawn # {}
    /\ transactions # <<>>
    /\ Cardinality(DOMAIN current_funding) = MaxId

\* C20. Frame of a contribution: a successful fund of value v changes the
\* ledger entry of its id, to the accumulated amount + v, and the held
\* balance, by + v, and nothing else; a failed fund changes nothing.
C20_FundFrame ==
    [][Called("fund")
       => IF last'.ok
          THEN /\ contains(current_funding', last'.fund_id)
               /\ current_funding'[last'.fund_id]
                      = accumulated(last'.fund_id) + last'.value
               /\ \A i \in FundingId \ {last'.fund_id} :
                      /\ contains(current_funding', i) = contains(current_funding, i)
                      /\ contains(current_funding, i)
                         => current_funding'[i] = current_funding[i]
               /\ balance' = balance + last'.value
               /\ UNCHANGED <<transactions, next_id, tx_ids>>
          ELSE UNCHANGED store]_vars

\* A fund has just added to one entry while the other id keeps its own.
C20_Witness ==
    /\ last.op = "fund" /\ last.ok /\ last.value > 0
    /\ current_funding[last.fund_id] > last.value
    /\ \E i \in DOMAIN current_funding : i # last.fund_id /\ current_funding[i] > 0

=============================================================================
